---- MODULE Spec2Model ----
(***************************************************************************)
(* CriteoTFRecordReader (data_pipeline_multi_hot.py): the input pipeline    *)
(* one worker builds by calling the reader, and the batches an iterator    *)
(* over that pipeline hands to its consumer.                               *)
(*                                                                         *)
(* Spec      the pipeline: construction (__call__) and iteration.  Batches *)
(*           are carried by reference to the record they were parsed from  *)
(*           (a per-replica batch holds millions of rows).                 *)
(* TrainSpec the training-mode reader, the iterator never idling while it  *)
(*           can step.                                                     *)
(* ParseSpec _parse_fn and _mark_as_padding applied to one serialized      *)
(*           example, with the tensors written out.                        *)
(***************************************************************************)
EXTENDS Integers, Sequences, FiniteSets, TLC

\* ------------------------------------------------------------ constants
NUM_DATASET_SAMPLES == 89137319
MAX_PARALLELISM == 8
SHUFFLE_BUFFER == 256
PADDING_STEPS == 100
PREFETCH_BUFFER == 2048
THREADPOOL_SIZE == 96

\* ------------------------------------------------------------ bounds
MaxFiles == 3
MaxRecords == 1
MaxWorkers == 2
MaxDelivered == 3
MaxMixedPadding == 3
MaxBatch == 2
MaxHot == 2
MaxSeed == 1

\* global_batch_size values: one, four and 103 batches per evaluation epoch
GlobalBatchSizes == {89137319, 24000000, 870000}
\* params.num_shards values
NumShardsHints == {0, 2, 17}

VARIABLES
  files,      \* files[k]: number of serialized records in the k-th matched file
  params,     \* config.DataConfig: global_batch_size, num_shards, is_training
  ctx,        \* tf.distribute.InputContext, or absent
  pc,         \* "new", "ready", "AttributeError", "ValueError",
              \* "InvalidArgumentError", "end_of_sequence", "blocked"
  ds,         \* the dataset __call__ returned
  it,         \* the state of the iterator over ds
  out,        \* the batch the last GetNext returned
  outPos,     \* its position within its epoch (1-based), 0 before any
  epochLog,   \* consumer's log of the first evaluation epoch
  delivered,  \* batches handed to the consumer, counted up to MaxDelivered
  reader,     \* ParseSpec: the reader's fields and the resolved batch size
  example,    \* ParseSpec: the serialized example, feature name -> value list
  features,   \* ParseSpec: what _parse_fn returned
  ppc         \* ParseSpec: "input", "parsed", "padding", "error"

pipeVars == <<files, params, ctx, pc, ds, it, out, outPos, epochLog, delivered>>
parseVars == <<reader, example, features, ppc>>
vars == <<pipeVars, parseVars>>

\* ------------------------------------------------------------ helpers
Min(a, b) == IF a < b THEN a ELSE b
Max(a, b) == IF a > b THEN a ELSE b
Range(s) == {s[k] : k \in 1..Len(s)}
Take(s, n) == SubSeq(s, 1, Min(n, Len(s)))

\* tf.data.Dataset.list_files(pattern, shuffle=False): the matched files, in
\* a stable order; a file is named by its 1-based index, its list position
\* is that index minus one
ListFiles(fs) == [k \in 1..Len(fs) |-> k]
FilePosition(f) == f - 1

\* the serialized records of file f, in file order
RecordsOf(fs, f) == [r \in 1..fs[f] |-> <<f, r>>]

\* a sharding into contiguous blocks instead of round robin
ShardBlocks(s, n, i) ==
  LET size == (Len(s) + n - 1) \div n
  IN  SubSeq(s, i * size + 1, Min(Len(s), (i + 1) * size))

\* Dataset.shard(n, i): the elements at positions i, i+n, i+2n, ...
Shard(s, n, i) ==
  LET m == IF Len(s) > i THEN (Len(s) - i + n - 1) \div n ELSE 0
  IN  [k \in 1..m |-> s[i + (k - 1) * n + 1]]

\* ctx.get_per_replica_batch_size(global_batch_size)
Divisible(c, b) == b % c.num_replicas_in_sync = 0
PerReplicaBatchSize(c, b) == b \div c.num_replicas_in_sync

\* line 118 without the cap
ParallelismUncapped(num_files, num_input_pipelines) ==
  Max(1, num_files \div num_input_pipelines)

\* line 118
Parallelism(num_files, num_input_pipelines) ==
  Max(1, Min(MAX_PARALLELISM, num_files \div num_input_pipelines))

\* lines 145-147 rounding down
NumDatasetBatchesFloor(global_batch_size) ==
  NUM_DATASET_SAMPLES \div global_batch_size

\* lines 145-147
NumDatasetBatches(global_batch_size) ==
  (NUM_DATASET_SAMPLES + global_batch_size - 1) \div global_batch_size

\* TFRecordDataset(files, num_parallel_reads=cycle): the files are read
\* cycle at a time, one record from each in turn, in a deterministic order
RECURSIVE InterleaveRun(_, _, _, _)
InterleaveRun(fs, input, slots, cur) ==
  LET nxt == (cur % Len(slots)) + 1 IN
  IF input = <<>> /\ \A k \in 1..Len(slots) : slots[k] = <<>> THEN <<>>
  ELSE IF slots[cur] # <<>>
    THEN <<Head(slots[cur])>>
         \o InterleaveRun(fs, input, [slots EXCEPT ![cur] = Tail(@)], nxt)
  ELSE IF input # <<>>
    THEN InterleaveRun(fs, Tail(input),
                       [slots EXCEPT ![cur] = RecordsOf(fs, Head(input))], cur)
  ELSE InterleaveRun(fs, input, slots, nxt)

TFRecordDataset(fs, input, cycle) ==
  InterleaveRun(fs, input, [k \in 1..cycle |-> <<>>], 1)

\* _parse_fn, by reference: the label vector, the dense matrix and the sparse
\* fields of record r at the resolved batch size
Parsed(r, batch_size) ==
  [clicked         |-> [shape |-> <<batch_size>>, rec |-> r],
   dense_features  |-> [shape |-> <<batch_size, 13>>, rec |-> r],
   sparse_features |-> [rec |-> r]]

\* v * tf.ones([n]), every entry v
Filled(n, v) == [shape |-> <<n>>, fill |-> v]

\* lines 149-157 with the sign of the sentinel lost
mark_as_padding_plus(f, batch_size) ==
  [f EXCEPT !.clicked = Filled(batch_size, 1)]

\* lines 149-157
mark_as_padding(f, batch_size) ==
  [f EXCEPT !.clicked = Filled(batch_size, -1)]

NoBatch == Parsed(<<>>, 0)

\* a take that passes one element too many
TakeOpenInclusive(count, n) == count <= n

\* Dataset.take(n) after count elements: does it pass another one
TakeOpen(count, n) == count < n

\* every record of the files of a shard
ShardRecordSet(fs, shard) ==
  UNION {Range(RecordsOf(fs, shard[k])) : k \in 1..Len(shard)}

\* the shuffle buffer over a file sequence that is read once, not repeated
ReplenishedOnce(buf, up, repeating, all) ==
  buf \cup Range(Take(up, SHUFFLE_BUFFER - Cardinality(buf)))

\* Dataset.shuffle(SHUFFLE_BUFFER) at a GetNext: the buffer is topped up from
\* the reader before an element is drawn at random from it.  With repeat()
\* on the file sequence the reader never runs dry: whatever order
\* shuffle(parallelism) gives the files of each pass, any
\* (2 * files - 1 + 2 * parallelism) * records successive elements of the
\* reader hold every record of the shard, so the buffer holds each of them
\* MaxDelivered times over and any of them may be drawn (BufferSpansShard).
ReplenishedBuffer(buf, up, repeating, all) ==
  IF repeating /\ all # {} THEN all
  ELSE buf \cup Range(Take(up, SHUFFLE_BUFFER - Cardinality(buf)))

\* what is left in the reader after that top-up
AfterReplenish(buf, up) ==
  SubSeq(up, Min(Len(up), SHUFFLE_BUFFER - Cardinality(buf)) + 1, Len(up))

\* a replay that walks the cache backwards
CachedReversed(cache, k) == cache[Len(cache) - k + 1]

\* Dataset.cache() once complete, under repeat(): element k of every epoch
CachedElement(cache, k) == cache[k]

\* the shuffle buffer is that large
BufferSpansShard ==
  MaxDelivered * (2 * MaxFiles - 1 + 2 * MAX_PARALLELISM) * MaxRecords
    <= SHUFFLE_BUFFER

\* ------------------------------------------------------------ state
NoCtx ==
  [present |-> FALSE, num_input_pipelines |-> 0, input_pipeline_id |-> 0,
   num_replicas_in_sync |-> 0]

Contexts ==
  {[present |-> TRUE, num_input_pipelines |-> w, input_pipeline_id |-> i,
    num_replicas_in_sync |-> w] : w \in 1..MaxWorkers, i \in 0..(MaxWorkers - 1)}

FileLists == UNION {[1..n -> 0..MaxRecords] : n \in 0..MaxFiles}

NoDataset ==
  [batch_size |-> 0, parallelism |-> 0, shard |-> <<>>,
   file_shuffle_buffer |-> 0, repeat_files |-> FALSE,
   num_parallel_reads |-> 0, num_parallel_calls |-> 0,
   shuffle_buffer |-> 0, num_dataset_batches |-> 0, padding_steps |-> 0,
   prefetch |-> 0, threadpool |-> 0]

NoReader ==
  [num_dense_features |-> 0, vocab_sizes |-> <<>>, multi_hot_sizes |-> <<>>,
   embedding_threshold |-> 0, batch_size |-> 0]

NoIterator ==
  [phase |-> "none", up |-> <<>>, sbuf |-> {}, pads |-> 0, cache |-> <<>>,
   pos |-> 0]

\* the number of real batches in the shard of worker c
RealBatches(fs, c) ==
  Cardinality(ShardRecordSet(fs,
    Shard(ListFiles(fs), c.num_input_pipelines, c.input_pipeline_id)))

\* Each padding batch is drawn on its own, so a padding tail of t batches
\* over a shard of r batches has r^t forms: shards of several batches are
\* explored with tails of at most MaxMixedPadding.
TailExplored(fs, p, c) ==
  IF p.is_training \/ ~c.present THEN TRUE
  ELSE IF RealBatches(fs, c) <= 1 THEN TRUE
  ELSE NumDatasetBatches(p.global_batch_size) - RealBatches(fs, c)
         <= MaxMixedPadding

Init ==
  /\ files \in FileLists
  /\ params \in [global_batch_size : GlobalBatchSizes,
                 num_shards : NumShardsHints, is_training : BOOLEAN]
  /\ ctx \in {c \in Contexts : c.input_pipeline_id < c.num_input_pipelines}
             \cup {NoCtx}
  /\ TailExplored(files, params, ctx)
  /\ BufferSpansShard
  /\ pc = "new"
  /\ ds = NoDataset
  /\ it = NoIterator
  /\ out = NoBatch
  /\ outPos = 0
  /\ epochLog = <<>>
  /\ delivered = 0
  /\ reader = NoReader
  /\ example = <<>>
  /\ features = NoBatch
  /\ ppc = "off"

\* ------------------------------------------------------------ __call__
\* lines 51-168 with a context whose batch size divides.  prefetch and the
\* thread pool options are kept as set; they leave the sequence of elements
\* as it is.
BuildDataset(fs, p, c) ==
  LET batch_size == PerReplicaBatchSize(c, p.global_batch_size)
      parallelism == Parallelism(p.num_shards, c.num_input_pipelines)
  IN  [batch_size |-> batch_size,
       parallelism |-> parallelism,
       shard |-> Shard(ListFiles(fs), c.num_input_pipelines,
                       c.input_pipeline_id),
       file_shuffle_buffer |-> IF p.is_training THEN parallelism ELSE 0,
       repeat_files |-> p.is_training,
       num_parallel_reads |-> parallelism,
       num_parallel_calls |-> parallelism,
       shuffle_buffer |-> SHUFFLE_BUFFER,
       num_dataset_batches |->
         IF p.is_training THEN 0 ELSE NumDatasetBatches(p.global_batch_size),
       padding_steps |-> IF p.is_training THEN 0 ELSE PADDING_STEPS,
       prefetch |-> PREFETCH_BUFFER,
       threadpool |-> THREADPOOL_SIZE]

\* a fresh iterator over the reader of a dataset
Reader(fs, d) == TFRecordDataset(fs, d.shard, d.num_parallel_reads)

Call ==
  /\ pc = "new"
  /\ IF ~ctx.present
       THEN \* batch_size is the global size (line 57); line 118 then reads
            \* ctx.num_input_pipelines
            /\ pc' = "AttributeError"
            /\ UNCHANGED <<ds, it>>
     ELSE IF ~Divisible(ctx, params.global_batch_size)
       THEN \* get_per_replica_batch_size refuses a batch size the replicas
            \* do not divide
            /\ pc' = "ValueError"
            /\ UNCHANGED <<ds, it>>
     ELSE IF ListFiles(files) = <<>>
       THEN \* list_files: no file matches the pattern
            /\ pc' = "InvalidArgumentError"
            /\ UNCHANGED <<ds, it>>
     ELSE /\ pc' = "ready"
          /\ ds' = BuildDataset(files, params, ctx)
          /\ it' = [NoIterator EXCEPT
                      !.phase = IF params.is_training THEN "train" ELSE "real",
                      !.up = Reader(files, ds')]
  /\ UNCHANGED <<files, params, ctx, out, outPos, epochLog, delivered, parseVars>>

\* ------------------------------------------------------------ iteration
Count(n) == Min(n + 1, MaxDelivered)

\* a real batch is drawn from the shuffle buffer
Draw ==
  /\ pc = "ready"
  /\ \/ it.phase = "train" /\ delivered < MaxDelivered
     \/ it.phase = "real" /\ TakeOpen(Len(it.cache), ds.num_dataset_batches)
  /\ LET buf == ReplenishedBuffer(it.sbuf, it.up, ds.repeat_files,
                                  ShardRecordSet(files, ds.shard))
     IN  \E r \in buf :
           LET b == Parsed(r, ds.batch_size) IN
           /\ out' = b
           /\ it' = [it EXCEPT
                       !.sbuf = buf \ {r},
                       !.up = AfterReplenish(it.sbuf, it.up),
                       !.cache = IF it.phase = "real" THEN Append(@, b) ELSE @]
           /\ epochLog' = IF it.phase = "real" THEN Append(epochLog, b)
                          ELSE epochLog
           /\ outPos' = IF it.phase = "real" THEN Len(it.cache) + 1 ELSE 0
  /\ delivered' = Count(delivered)
  /\ UNCHANGED <<files, params, ctx, pc, ds, parseVars>>

\* the shuffle buffer and the reader are empty
Exhausted ==
  /\ pc = "ready"
  /\ \/ it.phase = "train" /\ delivered < MaxDelivered
     \/ it.phase = "real" /\ TakeOpen(Len(it.cache), ds.num_dataset_batches)
  /\ ReplenishedBuffer(it.sbuf, it.up, ds.repeat_files,
                       ShardRecordSet(files, ds.shard)) = {}
  /\ IF it.phase = "real"
       THEN \* concatenate() moves on to padding_ds
            /\ it' = [it EXCEPT !.phase = "padding", !.up = <<>>]
            /\ pc' = pc
     ELSE IF ds.repeat_files /\ ds.shard # <<>>
       THEN \* repeat() reopens files that hold no record, without end
            /\ pc' = "blocked"
            /\ it' = it
     ELSE \* nothing to repeat
          /\ pc' = "end_of_sequence"
          /\ it' = it
  /\ UNCHANGED <<files, params, ctx, ds, out, outPos, epochLog, delivered, parseVars>>

\* one repetition of padding_ds: a new iterator over dataset.take(1), whose
\* one element is relabelled
Padding ==
  /\ pc = "ready"
  /\ it.phase = "padding"
  /\ TakeOpen(Len(it.cache), ds.num_dataset_batches)
  /\ it.pads < ds.padding_steps
  /\ LET buf == ReplenishedBuffer({}, Reader(files, ds), FALSE, {})
     IN  \E r \in buf :
           LET b == mark_as_padding(Parsed(r, ds.batch_size), ds.batch_size) IN
           /\ out' = b
           /\ it' = [it EXCEPT !.pads = @ + 1, !.cache = Append(@, b)]
           /\ epochLog' = Append(epochLog, b)
           /\ outPos' = Len(it.cache) + 1
  /\ delivered' = Count(delivered)
  /\ UNCHANGED <<files, params, ctx, pc, ds, parseVars>>

\* take(num_dataset_batches) or padding_ds ends: the cache is complete
FirstPassDone ==
  /\ pc = "ready"
  /\ \/ /\ it.phase \in {"real", "padding"}
        /\ ~TakeOpen(Len(it.cache), ds.num_dataset_batches)
     \/ /\ it.phase = "padding"
        /\ TakeOpen(Len(it.cache), ds.num_dataset_batches)
        /\ \/ it.pads = ds.padding_steps
           \/ ReplenishedBuffer({}, Reader(files, ds), FALSE, {}) = {}
  /\ IF it.cache = <<>>
       THEN \* repeat() of an empty sequence ends
            /\ pc' = "end_of_sequence"
            /\ it' = it
     ELSE /\ pc' = pc
          /\ it' = [it EXCEPT !.phase = "cached", !.pos = 0, !.sbuf = {}]
  /\ UNCHANGED <<files, params, ctx, ds, out, outPos, epochLog, delivered, parseVars>>

\* a later epoch: the next element of the cache
Cached ==
  /\ pc = "ready"
  /\ it.phase = "cached"
  /\ out' = CachedElement(it.cache, it.pos + 1)
  /\ outPos' = it.pos + 1
  /\ it' = [it EXCEPT !.pos = (@ + 1) % Len(it.cache)]
  /\ delivered' = Count(delivered)
  /\ UNCHANGED <<files, params, ctx, pc, ds, epochLog, parseVars>>

Next ==
  \/ Call
  \/ Draw
  \/ Exhausted
  \/ Padding
  \/ FirstPassDone
  \/ Cached

Spec == Init /\ [][Next]_vars

\* the training-mode reader, whose consumer keeps asking
TrainInit == Init /\ params.is_training

TrainNext ==
  \/ Call
  \/ Draw
  \/ Exhausted

TrainSpec == TrainInit /\ [][TrainNext]_vars /\ WF_vars(TrainNext)

\* ------------------------------------------------------------ _parse_fn
\* dense field names taken from the num_dense_features parameter
DenseFeaturesByCount(r) ==
  [k \in 1..r.num_dense_features |-> "int-feature-" \o ToString(k)]

\* lines 47-49: the field names, from the fixed ranges
label_features == "clicked"
DenseFeatures(r) == [k \in 1..13 |-> "int-feature-" \o ToString(k)]
SparseFeatures(r) ==
  [k \in 1..26 |-> "categorical-feature-" \o ToString(13 + k)]

\* lines 60-84
FeatureSpec(r) ==
  LET dense == Range(DenseFeatures(r))
      sparse == Range(SparseFeatures(r))
  IN  [n \in {label_features} \cup dense \cup sparse |->
         [shape |-> <<r.batch_size>>,
          dtype |-> IF n = label_features THEN "int64"
                    ELSE IF n \in dense THEN "float32" ELSE "string"]]

\* tf.io.parse_single_example with FixedLenFeature: every feature of the
\* spec is present with its type and its length, or the parse fails
ParseSingleExampleOk(ex, spec) ==
  \A n \in DOMAIN spec :
    /\ n \in DOMAIN ex
    /\ ex[n].dtype = spec[n].dtype
    /\ Len(ex[n].values) = spec[n].shape[1]

ParseSingleExample(ex, spec) == [n \in DOMAIN spec |-> ex[n].values]

\* eight bytes, least significant first, as a 64-bit integer (below 2^63)
RECURSIVE LittleEndian(_)
LittleEndian(bytes) ==
  IF bytes = <<>> THEN 0 ELSE Head(bytes) + 256 * LittleEndian(Tail(bytes))

\* tf.io.decode_raw(strings, tf.int64): [n] strings of one length, a
\* multiple of eight, to an [n, length / 8] matrix
DecodeRawOk(strs) ==
  \A b \in 1..Len(strs) :
    Len(strs[b]) = Len(strs[1]) /\ Len(strs[b]) % 8 = 0

DecodeRaw(strs) ==
  [b \in 1..Len(strs) |->
     [j \in 1..(Len(strs[b]) \div 8) |->
        LittleEndian(SubSeq(strs[b], 8 * (j - 1) + 1, 8 * j))]]

RECURSIVE Flatten(_)
Flatten(m) == IF m = <<>> THEN <<>> ELSE Head(m) \o Flatten(Tail(m))

\* tf.reshape(matrix, [rows, cols]): needs rows * cols elements
ReshapeOk(m, rows, cols) == Len(Flatten(m)) = rows * cols

Reshape(m, rows, cols) ==
  [b \in 1..rows |-> SubSeq(Flatten(m), (b - 1) * cols + 1, b * cols)]

\* tf.sparse.from_dense: the non-zero cells, row by row, with 0-based indices
FromDense(m) ==
  LET rows == Len(m)
      cols == IF rows = 0 THEN 0 ELSE Len(m[1])
      cells == [n \in 1..(rows * cols) |->
                  <<(n - 1) \div cols, (n - 1) % cols>>]
      nz == SelectSeq(cells, LAMBDA c : m[c[1] + 1][c[2] + 1] # 0)
  IN  [kind |-> "SparseTensor",
       indices |-> nz,
       values |-> [n \in 1..Len(nz) |-> m[nz[n][1] + 1][nz[n][2] + 1]],
       dense_shape |-> <<rows, cols>>]

Tensor(m) == [kind |-> "Tensor", value |-> m]

\* line 109 with the boundary on the wrong side
UseSparseAtThreshold(vocab_size, embedding_threshold) ==
  vocab_size >= embedding_threshold

\* line 109
UseSparse(vocab_size, embedding_threshold) == vocab_size > embedding_threshold

\* lines 104-108 for sparse field i (0-based)
DecodedField(r, parsed, i) == DecodeRaw(parsed[SparseFeatures(r)[i + 1]])

\* every decode and reshape of lines 104-108 succeeds
SparseFieldsOk(r, parsed) ==
  \A i \in 0..25 :
    /\ DecodeRawOk(parsed[SparseFeatures(r)[i + 1]])
    /\ ReshapeOk(DecodedField(r, parsed, i), r.batch_size,
                 r.multi_hot_sizes[i + 1])

\* lines 86-116, once the parse and the reshapes have succeeded
ParseFn(r, parsed) ==
  [clicked |-> [shape |-> <<r.batch_size>>,
                values |-> parsed[label_features]],
   dense_features |->
     [b \in 1..r.batch_size |->
        [k \in 1..Len(DenseFeatures(r)) |-> parsed[DenseFeatures(r)[k]][b]]],
   sparse_features |->
     [key \in {ToString(i) : i \in 0..25} |->
        LET i == CHOOSE i \in 0..25 : ToString(i) = key
            cat_ft_int64 == Reshape(DecodedField(r, parsed, i), r.batch_size,
                                    r.multi_hot_sizes[i + 1])
        IN  IF UseSparse(r.vocab_sizes[i + 1], r.embedding_threshold)
              THEN FromDense(cat_ft_int64)
              ELSE Tensor(cat_ft_int64)]]

\* ------------------------------------------------------------ ParseSpec
SparseValues == <<0, 1, 300, 7>>
Int64Bytes(v) == <<v % 256, (v \div 256) % 256, 0, 0, 0, 0, 0, 0>>
Flaws == {"none", "label_length", "sparse_width"}

\* a serialized example of batch rows whose sparse field k holds hot[k]
\* integers a row; a flaw breaks the label's length or field 14's width
MakeExample(batch, hot, seed, flaw) ==
  LET dense == [k \in 1..13 |-> "int-feature-" \o ToString(k)]
      sparse == [k \in 1..26 |-> "categorical-feature-" \o ToString(13 + k)]
      rows == IF flaw = "label_length" THEN batch + 1 ELSE batch
      width(k) == IF flaw = "sparse_width" /\ k = 1 THEN hot[k] + 1 ELSE hot[k]
  IN  (label_features :>
         [dtype |-> "int64", values |-> [b \in 1..rows |-> (seed + b) % 2]])
      @@ [n \in Range(dense) |->
            LET k == CHOOSE k \in 1..13 : dense[k] = n
            IN  [dtype |-> "float32",
                 values |-> [b \in 1..batch |-> (seed + k + b) % 3]]]
      @@ [n \in Range(sparse) |->
            LET k == CHOOSE k \in 1..26 : sparse[k] = n
            IN  [dtype |-> "string",
                 values |->
                   [b \in 1..batch |->
                      Flatten([j \in 1..width(k) |->
                        Int64Bytes(
                          SparseValues[((seed + k + 2 * b + j) % 4) + 1])])]]]

HotLists == {[i \in 1..26 |-> 1 + ((i + a) % MaxHot)] : a \in 0..(MaxHot - 1)}
VocabLists == {[i \in 1..26 |-> 1 + ((i * m) % 7)] : m \in 1..2}
Thresholds == {0, 3, 7}
DenseCounts == {0, 13, 20}

ParseInit ==
  /\ reader \in [num_dense_features : DenseCounts, vocab_sizes : VocabLists,
                 multi_hot_sizes : HotLists, embedding_threshold : Thresholds,
                 batch_size : 1..MaxBatch]
  /\ example \in {MakeExample(reader.batch_size, reader.multi_hot_sizes, s, f) :
                    s \in 0..MaxSeed, f \in Flaws}
  /\ features = NoBatch
  /\ ppc = "input"
  /\ files = <<>>
  /\ params = [global_batch_size |-> 0, num_shards |-> 0, is_training |-> FALSE]
  /\ ctx = NoCtx
  /\ pc = "off"
  /\ ds = NoDataset
  /\ it = NoIterator
  /\ out = NoBatch
  /\ outPos = 0
  /\ epochLog = <<>>
  /\ delivered = 0

\* dataset.map(_parse_fn) on one element
Parse ==
  /\ ppc = "input"
  /\ LET spec == FeatureSpec(reader) IN
     IF /\ ParseSingleExampleOk(example, spec)
        /\ SparseFieldsOk(reader, ParseSingleExample(example, spec))
       THEN /\ features' = ParseFn(reader, ParseSingleExample(example, spec))
            /\ ppc' = "parsed"
     ELSE /\ features' = features
          /\ ppc' = "error"
  /\ UNCHANGED <<reader, example, pipeVars>>

\* padding_ds.map(_mark_as_padding) on that element
MarkPadding ==
  /\ ppc = "parsed"
  /\ features' = mark_as_padding(features, reader.batch_size)
  /\ ppc' = "padding"
  /\ UNCHANGED <<reader, example, pipeVars>>

ParseNext ==
  \/ Parse
  \/ MarkPadding

ParseSpec == ParseInit /\ [][ParseNext]_vars

\* ------------------------------------------------------------ properties
\* ceil(NUM_DATASET_SAMPLES / b), by quotient and remainder
CeilBatches(b) == (89137319 \div b) + (IF 89137319 % b = 0 THEN 0 ELSE 1)

\* the worker's __call__ returned a dataset
Built == pc \in {"ready", "end_of_sequence", "blocked"}

\* an evaluation iterator whose first pass is over
CycleKnown ==
  /\ Built
  /\ ~params.is_training
  /\ (it.phase = "cached" \/ pc = "end_of_sequence")

\* the batch carries the padding label
PaddingLabel(b) == b.clicked = Filled(ds.batch_size, -1)

\* C1: the shards of workers 0..W-1 partition the file list: worker i gets
\* exactly the files whose list position is congruent to i mod W, every file
\* is in the shard of exactly one worker, and an iterator reads records of
\* its own shard's files only.
C1_ShardsPartition ==
  Built =>
    LET W == ctx.num_input_pipelines
        shardOf(i) == Range(Shard(ListFiles(files), W, i))
    IN  /\ \A f \in 1..Len(files) :
             /\ f \in Range(ds.shard)
                  <=> FilePosition(f) % W = ctx.input_pipeline_id
             /\ \A i \in 0..(W - 1) :
                  f \in shardOf(i) <=> FilePosition(f) % W = i
             /\ Cardinality({i \in 0..(W - 1) : f \in shardOf(i)}) = 1
        /\ Len(ds.shard) = Cardinality(Range(ds.shard))
        /\ \A r \in it.sbuf \cup Range(it.up) : r[1] \in Range(ds.shard)
        /\ out # NoBatch => out.dense_features.rec[1] \in Range(ds.shard)

C1_Witness ==
  /\ pc = "ready"
  /\ ctx.num_input_pipelines = 2
  /\ Len(files) = 3
  /\ Len(ds.shard) = 2
  /\ out # NoBatch

\* C2 (as stated): once the first evaluation pass is over, the cycle holds
\* exactly ceil(89137319 / B) batches, whatever the number of real batches
\* in the shard (here: for the shards that hold one at least).
C2_Original ==
  (CycleKnown /\ RealBatches(files, ctx) >= 1)
    => Len(it.cache) = CeilBatches(params.global_batch_size)

\* C2 (amended): the cycle holds min(ceil(89137319 / B), R + 100) batches for
\* a shard of R >= 1 real batches and none for an empty shard; so it holds
\* ceil(89137319 / B) batches exactly when 1 <= R and
\* ceil(89137319 / B) <= R + 100.
C2_CycleLength ==
  CycleKnown =>
    LET R == RealBatches(files, ctx)
        nb == CeilBatches(params.global_batch_size)
    IN  /\ Len(it.cache) = IF R = 0 THEN 0 ELSE Min(nb, R + 100)
        /\ (R >= 1 /\ nb <= R + 100) => Len(it.cache) = nb

C2_Witness ==
  /\ CycleKnown
  /\ it.phase = "cached"
  /\ Len(it.cache) = CeilBatches(params.global_batch_size)
  /\ RealBatches(files, ctx) < Len(it.cache)
  /\ ctx.num_input_pipelines = 2

\* every matched file holds a record
NoEmptyFile == \A f \in 1..Len(files) : files[f] >= 1

\* C3 (as stated): a training sequence never ends and never stalls, for
\* every worker index and worker count (here: over files that each hold a
\* record).
C3_Original ==
  (Built /\ params.is_training /\ NoEmptyFile) => pc = "ready"

\* C3 (amended): in training mode a worker whose shard holds at least one
\* record receives every batch it asks for.
C3_TrainingDelivers ==
  (pc = "ready" /\ params.is_training /\ RealBatches(files, ctx) >= 1)
    ~> (delivered = MaxDelivered)

C3_Witness ==
  /\ pc = "ready"
  /\ params.is_training
  /\ delivered = MaxDelivered
  /\ RealBatches(files, ctx) = 1
  /\ ctx.input_pipeline_id = 1

\* the padding batches of the cycle: those after the shard's real batches
PaddingPositions ==
  LET R == RealBatches(files, ctx) IN (R + 1)..Len(it.cache)

\* batch b has the dense and sparse content of record r, parsed
ClonedFrom(b, r) ==
  /\ b.dense_features = Parsed(r, ds.batch_size).dense_features
  /\ b.sparse_features = Parsed(r, ds.batch_size).sparse_features

\* the real batches of the cycle keep the labels of their records
RealLabelsKept ==
  LET R == RealBatches(files, ctx)
      recs == ShardRecordSet(files, ds.shard)
  IN  \A k \in 1..Min(R, Len(it.cache)) :
        \E r \in recs : it.cache[k] = Parsed(r, ds.batch_size)

\* C4 (as stated): every padding batch has all labels -1, all padding
\* batches of a cycle are clones of one and the same real batch, and no real
\* batch has its labels changed.
C4_Original ==
  (Built /\ ~params.is_training) =>
    /\ \A k \in PaddingPositions : PaddingLabel(it.cache[k])
    /\ \E r \in ShardRecordSet(files, ds.shard) \cup {<<>>} :
         \A k \in PaddingPositions : ClonedFrom(it.cache[k], r)
    /\ RealLabelsKept

\* C4 (amended): every padding batch has all labels -1 and the dense and
\* sparse content of some real batch of the worker's shard, not necessarily
\* the same one for every padding batch; no real batch has its labels
\* changed.
C4_PaddingClones ==
  (Built /\ ~params.is_training) =>
    /\ LET recs == ShardRecordSet(files, ds.shard) IN
       \A k \in PaddingPositions :
         /\ PaddingLabel(it.cache[k])
         /\ \E r \in recs : ClonedFrom(it.cache[k], r)
    /\ RealLabelsKept

C4_Witness ==
  /\ it.phase = "cached"
  /\ \E j \in PaddingPositions, k \in PaddingPositions :
       it.cache[j].dense_features # it.cache[k].dense_features

\* C5: a call without a context succeeds with the single-worker pipeline:
\* the batch size is the global batch size and the shard is the whole list.
C5_AbsentContext ==
  (~ctx.present /\ pc \notin {"new", "off"}) =>
    /\ pc = "ready"
    /\ ds.batch_size = params.global_batch_size
    /\ ds.shard = ListFiles(files)

\* C8: parallelism = min(8, max(1, num_shards div workers)), within 1..8,
\* and it is the file shuffle buffer (training), the number of parallel
\* reads and the number of parallel parse calls.
C8_Parallelism ==
  Built =>
    LET x == params.num_shards \div ctx.num_input_pipelines
        p == Min(8, Max(1, x))
    IN  /\ ds.parallelism = p
        /\ p \in 1..8
        /\ ds.num_parallel_reads = p
        /\ ds.num_parallel_calls = p
        /\ params.is_training => ds.file_shuffle_buffer = p

C8_Witness ==
  /\ pc = "ready"
  /\ params.num_shards = 17
  /\ ctx.num_input_pipelines = 2
  /\ ds.num_parallel_reads = 8
  /\ params.is_training
  /\ delivered > 0

C10_Original ==
  (Built /\ ~params.is_training /\ NoEmptyFile) =>
    /\ pc = "ready"
    /\ it.phase = "cached" => (it.cache = epochLog /\ out = epochLog[outPos])

\* one step of an iterator whose cache is complete: the cache, the reader
\* and the shuffle buffer are left alone and the next element of the first
\* epoch comes out
ReplayStep ==
  it.phase = "cached" =>
    /\ it'.phase = "cached"
    /\ it'.cache = it.cache
    /\ it.cache = epochLog
    /\ epochLog' = epochLog
    /\ it'.up = it.up /\ it'.sbuf = it.sbuf /\ it'.pads = it.pads
    /\ outPos' = (outPos % Len(epochLog)) + 1
    /\ out' = epochLog[outPos']
    /\ pc' = "ready"

\* C10 (amended): once the first pass is over the cache is only read: every
\* later epoch emits the batches of the first epoch in the same order; the
\* output repeats without end when the worker's shard holds at least one
\* batch (an empty shard gives an empty output).
C10_Replay ==
  /\ []((Built /\ ~params.is_training /\ RealBatches(files, ctx) >= 1)
          => pc = "ready")
  /\ [][ReplayStep]_vars

C10_Witness ==
  /\ it.phase = "cached"
  /\ Len(it.cache) = 4
  /\ it.pos = 2
  /\ outPos = 2
  /\ PaddingLabel(it.cache[4])
  /\ ~PaddingLabel(it.cache[2])

\* tf.sparse.to_dense: the matrix a sparse encoding stands for
ToDense(t) ==
  [b \in 1..t.dense_shape[1] |->
     [j \in 1..t.dense_shape[2] |->
        IF \E n \in 1..Len(t.indices) : t.indices[n] = <<b - 1, j - 1>>
          THEN t.values[CHOOSE n \in 1..Len(t.indices) :
                          t.indices[n] = <<b - 1, j - 1>>]
          ELSE 0]]

\* the integers stored for sparse field i (0-based), row by row
StoredField(i) ==
  DecodeRaw(example["categorical-feature-" \o ToString(14 + i)].values)

\* C6: sparse field i is a dense integer matrix iff vocab_sizes[i] <=
\* embedding_threshold, and otherwise a sparse encoding of the same values.
C6_SparseOrDense ==
  ppc \in {"parsed", "padding"} =>
    \A i \in 0..25 :
      LET t == features.sparse_features[ToString(i)] IN
      /\ t.kind = "Tensor"
           <=> reader.vocab_sizes[i + 1] <= reader.embedding_threshold
      /\ t.kind = "SparseTensor"
           <=> reader.vocab_sizes[i + 1] > reader.embedding_threshold
      /\ t.kind = "Tensor" => t.value = StoredField(i)
      /\ t.kind = "SparseTensor" =>
           /\ ToDense(t) = StoredField(i)
           /\ \A n \in 1..Len(t.values) : t.values[n] # 0

C6_Witness ==
  /\ ppc = "parsed"
  /\ features.sparse_features["0"].kind = "Tensor"
  /\ \E i \in 0..25 :
       /\ features.sparse_features[ToString(i)].kind = "SparseTensor"
       /\ Len(features.sparse_features[ToString(i)].values)
            < reader.batch_size * reader.multi_hot_sizes[i + 1]
       /\ Len(features.sparse_features[ToString(i)].values) > 0

\* C7: dense_features is [batch, 13] with column k holding dense field k,
\* sparse_features has exactly the keys "0".."25", key i holding sparse
\* field 14 + i shaped [batch, multi_hot_sizes[i]], for real and padding
\* batches alike and whatever num_dense_features is.
C7_Shapes ==
  ppc \in {"parsed", "padding"} =>
    /\ Len(features.dense_features) = reader.batch_size
    /\ \A b \in 1..reader.batch_size :
         /\ Len(features.dense_features[b]) = 13
         /\ \A k \in 1..13 :
              features.dense_features[b][k]
                = example["int-feature-" \o ToString(k)].values[b]
    /\ DOMAIN features.sparse_features = {ToString(i) : i \in 0..25}
    /\ \A i \in 0..25 :
         LET t == features.sparse_features[ToString(i)]
             m == IF t.kind = "Tensor" THEN t.value ELSE ToDense(t)
         IN  /\ Len(m) = reader.batch_size
             /\ \A b \in 1..Len(m) :
                  Len(m[b]) = reader.multi_hot_sizes[i + 1]
             /\ m = StoredField(i)

C7_Witness ==
  /\ ppc = "padding"
  /\ reader.num_dense_features = 20
  /\ reader.batch_size = 2
  /\ reader.multi_hot_sizes[1] = 2

====
